---------------------------- MODULE Spec2Model ----------------------------
(*
  A model of llmfoundry/models/layers/norm.py: the precision-casting helper
  _cast_if_autocast_enabled and the forward methods of LPLayerNorm, RMSNorm
  and LPRMSNorm, driven by a caller that changes the ambient autocast state
  and the accelerator (PJRT) runtime mode between calls.

  A tensor is a record
     ref    : which tensor object it is (<<"input", i>>, <<"weight", 0>>,
              <<"bias", 0>>, or <<"temp", 0>> for a tensor a conversion or a
              primitive has newly made),
     val    : where its numbers come from,
     dtype  : its floating-point type,
     device : its device category (tensor.device.type),
     hist   : the dtypes and primitives its numbers have passed through.
  The numbers themselves are not modelled: two tensors with the same val and
  the same hist hold the same numbers, produced at the same precision.

  What the host runtime does is taken from its documented behaviour:
  Tensor.to(dtype) returns the tensor itself when the dtype already matches
  and a new tensor otherwise; elementwise arithmetic promotes dtypes; the
  normalization primitives are total; torch.autocast(enabled=False, ...)
  opens a scope in which autocast is off.  Which dtype an operation yields
  while autocast is ambient differs between builds and devices of the
  runtime and is fixed per run in the variable build.
*)
EXTENDS Integers, Sequences, FiniteSets, TLC

VARIABLES
    self,        \* the module instance: its class, weight, bias, eps
    ctor,        \* what the constructor stored (never written afterwards)
    ac,          \* ambient autocast state of the calling thread
    using_pjrt,  \* answer of pjrt.using_pjrt()
    build,       \* build-dependent behaviour of the host runtime
    last,        \* the latest call made in the current environment
    repeated     \* last repeats the call made just before it

vars == <<self, ctor, ac, using_pjrt, build, last, repeated>>

-----------------------------------------------------------------------------
(* Bounds and value sets *)

NumInputs == 2

Devices == {"cuda", "cpu", "xla"}
DTypes == {"float16", "bfloat16", "float32"}
ParamDTypes == {"float32", "bfloat16"}
AutocastGpuDTypes == {"float16", "bfloat16"}
AutocastCpuDTypes == {"bfloat16"}
\* Python's None where a tensor is expected.
NoneT == [ref |-> <<"None", 0>>, val |-> <<"None", 0>>, dtype |-> "None",
          device |-> "None", hist |-> <<>>]

Tensor(ref, dtype, device) ==
    [ref |-> ref, val |-> ref, dtype |-> dtype, device |-> device,
     hist |-> <<dtype>>]

Inputs ==
    { Tensor(<<"input", i>>, d, dev) : i \in 1..NumInputs, d \in DTypes,
                                       dev \in Devices }

\* torch defaults outside any autocast context.
AutocastOff == [enabled |-> FALSE, gpu_dtype |-> "float16",
                cpu_dtype |-> "bfloat16"]

-----------------------------------------------------------------------------
(* Host runtime primitives used by the file *)

\* Tensor.to(dtype=...): self when nothing changes, else a converted copy.
To(t, dtype) ==
    IF t.dtype = dtype THEN t
    ELSE [ref |-> <<"temp", 0>>, val |-> t.val, dtype |-> dtype,
          device |-> t.device, hist |-> Append(t.hist, dtype)]

\* Type promotion of elementwise arithmetic on two floating tensors.
Promote(a, b) == IF a = b THEN a ELSE "float32"

\* The dtype an operation yields: its own result dtype when autocast is not
\* ambient, the build's autocast policy for the operation when it is.
OpDType(own, amb, bld) ==
    IF amb /\ bld.autocastOps = "float32" THEN "float32" ELSE own

NoPrim == [op |-> "none", x |-> NoneT, weight |-> NoneT, bias |-> NoneT,
           eps |-> "", amb |-> FALSE, out |-> NoneT]

\* torch.nn.functional.layer_norm(x, normalized_shape, weight, bias, eps)
\* executed while the ambient autocast flag is amb.
layer_norm(x, weight, bias, eps, amb, bld) ==
    [op |-> "layer_norm", x |-> x, weight |-> weight, bias |-> bias,
     eps |-> eps, amb |-> amb,
     out |-> [ref |-> <<"temp", 0>>, val |-> x.val,
              dtype |-> OpDType(x.dtype, amb, bld), device |-> x.device,
              hist |-> Append(x.hist, "layer_norm")]]

\* rms_norm(x, weight, eps) executed while the ambient autocast flag is amb.
rms_norm(x, weight, eps, amb, bld) ==
    LET output == OpDType(x.dtype, amb, bld)
        scaled == IF weight # NoneT
                  THEN OpDType(Promote(output, weight.dtype), amb, bld)
                  ELSE output
    IN [op |-> "rms_norm", x |-> x, weight |-> weight, bias |-> NoneT,
        eps |-> eps, amb |-> amb,
        out |-> [ref |-> <<"temp", 0>>, val |-> x.val, dtype |-> scaled,
                 device |-> x.device, hist |-> Append(x.hist, "rms_norm")]]

\* with torch.autocast(enabled=False, device_type=...): entering the scope.
autocast_enter(a) == [a EXCEPT !.enabled = FALSE]

\* Faulty variant: the suppression outlives the scope.
autocast_exit_suppressed(entered, inner) == inner

\* Leaving the scope restores the state the scope was entered with.
autocast_exit(entered, inner) == entered

-----------------------------------------------------------------------------
(* _cast_if_autocast_enabled *)

Raise == "NotImplementedError"

\* Faulty variant: every device category other than 'cuda' is given the CPU dtype.
autocast_dtype_fallback(a, device) ==
    IF device = "cuda" THEN a.gpu_dtype ELSE a.cpu_dtype

\* Lines 12-17: the dtype for the tensor's device category, or the failure.
autocast_dtype(a, device) ==
    IF device = "cuda" THEN a.gpu_dtype
    ELSE IF device = "cpu" THEN a.cpu_dtype
    ELSE Raise

\* Faulty variant: the device category is resolved before autocast is queried.
cast_resolving_first(a, tensor) ==
    LET dtype == autocast_dtype(a, tensor.device)
    IN IF dtype = Raise THEN [status |-> Raise, t |-> NoneT]
       ELSE IF a.enabled THEN [status |-> "returned", t |-> To(tensor, dtype)]
       ELSE [status |-> "returned", t |-> tensor]

\* Faulty variant: the tensor is converted whether or not autocast is active.
cast_always(a, tensor) ==
    LET dtype == autocast_dtype(a, tensor.device)
    IN IF dtype = Raise THEN [status |-> "returned", t |-> tensor]
       ELSE [status |-> "returned", t |-> To(tensor, dtype)]

\* Lines 10-19.  a is the ambient autocast state at the time of the call.
cast_if_autocast_enabled(a, tensor) ==
    IF a.enabled
    THEN LET dtype == autocast_dtype(a, tensor.device)
         IN IF dtype = Raise THEN [status |-> Raise, t |-> NoneT]
            ELSE [status |-> "returned", t |-> To(tensor, dtype)]
    ELSE [status |-> "returned", t |-> tensor]

\* Faulty variant: the stored parameter is passed on as it is.
cast_optional_skipped(a, p) == [status |-> "returned", t |-> p]

\* "_cast_if_autocast_enabled(p) if p is not None else p" (lines 45-48, 114).
cast_optional(a, p) ==
    IF p # NoneT THEN cast_if_autocast_enabled(a, p)
    ELSE [status |-> "returned", t |-> p]

-----------------------------------------------------------------------------
(* Constructors *)

DefaultEps == "1e-05"

\* torch.nn.LayerNorm.__init__ as called at lines 32-38: weight of ones and
\* bias of zeros when elementwise_affine, both None otherwise.
LPLayerNorm_init(elementwise_affine, dtype, device) ==
    [cls |-> "LPLayerNorm",
     weight |-> IF elementwise_affine
                THEN Tensor(<<"weight", 0>>, dtype, device) ELSE NoneT,
     bias |-> IF elementwise_affine
              THEN Tensor(<<"bias", 0>>, dtype, device) ELSE NoneT,
     eps |-> DefaultEps]

\* Lines 70-84.  RMSNorm has no bias.
RMSNorm_init(weight, dtype, device) ==
    [cls |-> "RMSNorm",
     weight |-> IF weight THEN Tensor(<<"weight", 0>>, dtype, device)
                ELSE NoneT,
     bias |-> NoneT,
     eps |-> DefaultEps]

\* Lines 94-108: the RMSNorm constructor, unchanged.
LPRMSNorm_init(weight, dtype, device) ==
    [RMSNorm_init(weight, dtype, device) EXCEPT !.cls = "LPRMSNorm"]

-----------------------------------------------------------------------------
(* forward *)

Ev(op, arg, amb) == [op |-> op, arg |-> arg, amb |-> amb]

\* A call that returned out, having run the primitive call p.
Returned(out, p, trace, after) ==
    [status |-> "returned", out |-> out, prim |-> p, trace |-> trace,
     ac |-> after]

\* A call that raised.
Raised(status, trace, after) ==
    [status |-> status, out |-> NoneT, prim |-> NoPrim, trace |-> trace,
     ac |-> after]

\* Faulty variant: the result is cast back to the dtype x had on entry.
LPLayerNorm_result_cast_back(y, x) == To(y, x.dtype)

\* Lines 42 and 50: LPLayerNorm returns the primitive's result as it is.
LPLayerNorm_result(y, x) == y

\* Faulty variant: the result is returned in the dtype it was computed in.
RMSNorm_result_uncast(y, x) == y

\* Lines 88, 89, 112, 118: ".to(dtype=x.dtype)" on the result.
RMSNorm_result(y, x) == To(y, x.dtype)

\* Faulty variant: x is passed on at the dtype it has.
RMSNorm_upcast_skipped(x) == x

\* Line 89: x.float().
RMSNorm_upcast(x) == To(x, "float32")

\* Lines 40-56.
LPLayerNorm_forward(m, x, pjrt, a, bld) ==
    LET q == <<Ev("using_pjrt", "", a.enabled)>>
    IN IF pjrt
       THEN LET p == layer_norm(x, m.weight, m.bias, m.eps, a.enabled, bld)
            IN Returned(LPLayerNorm_result(p.out, x), p,
                        Append(q, Ev("layer_norm", "x", a.enabled)), a)
       ELSE
       LET cx == cast_if_autocast_enabled(a, x)
           cw == cast_optional(a, m.weight)
           cb == cast_optional(a, m.bias)
           t1 == Append(q, Ev("cast", "x", a.enabled))
           t2 == IF m.weight # NoneT
                 THEN Append(t1, Ev("cast", "weight", a.enabled)) ELSE t1
           t3 == IF m.bias # NoneT
                 THEN Append(t2, Ev("cast", "bias", a.enabled)) ELSE t2
           t4 == Append(t3, Ev("autocast_enter", x.device, a.enabled))
       IN IF cx.status # "returned" THEN Raised(cx.status, t1, a)
          ELSE IF cw.status # "returned" THEN Raised(cw.status, t2, a)
          ELSE IF cb.status # "returned" THEN Raised(cb.status, t3, a)
          ELSE LET inner == autocast_enter(a)
                   p == layer_norm(cx.t, cw.t, cb.t, m.eps, inner.enabled, bld)
                   after == autocast_exit(a, inner)
               IN Returned(LPLayerNorm_result(p.out, x), p,
                           t4 \o <<Ev("layer_norm", "x", inner.enabled),
                                   Ev("autocast_exit", x.device, after.enabled)>>,
                           after)

\* Faulty variant: no fast path, x is upcast whatever using_pjrt() says.
RMSNorm_forward_without_fast_path(m, x, pjrt, a, bld) ==
    LET p == rms_norm(RMSNorm_upcast(x), m.weight, m.eps, a.enabled, bld)
    IN Returned(RMSNorm_result(p.out, x), p,
                <<Ev("using_pjrt", "", a.enabled),
                  Ev("float", "x", a.enabled),
                  Ev("rms_norm", "x", a.enabled),
                  Ev("to", x.dtype, a.enabled)>>, a)

\* Lines 86-89.  No autocast scope is opened: the primitive runs under the
\* ambient state on both paths.
RMSNorm_forward(m, x, pjrt, a, bld) ==
    LET q == <<Ev("using_pjrt", "", a.enabled)>>
    IN IF pjrt
       THEN LET p == rms_norm(x, m.weight, m.eps, a.enabled, bld)
            IN Returned(RMSNorm_result(p.out, x), p,
                        q \o <<Ev("rms_norm", "x", a.enabled),
                               Ev("to", x.dtype, a.enabled)>>, a)
       ELSE LET p == rms_norm(RMSNorm_upcast(x), m.weight, m.eps, a.enabled,
                              bld)
            IN Returned(RMSNorm_result(p.out, x), p,
                        q \o <<Ev("float", "x", a.enabled),
                               Ev("rms_norm", "x", a.enabled),
                               Ev("to", x.dtype, a.enabled)>>, a)

\* Lines 110-118.  The final .to() is inside the with block.
LPRMSNorm_forward(m, x, pjrt, a, bld) ==
    LET q == <<Ev("using_pjrt", "", a.enabled)>>
    IN IF pjrt
       THEN LET p == rms_norm(x, m.weight, m.eps, a.enabled, bld)
            IN Returned(RMSNorm_result(p.out, x), p,
                        q \o <<Ev("rms_norm", "x", a.enabled),
                               Ev("to", x.dtype, a.enabled)>>, a)
       ELSE
       LET cx == cast_if_autocast_enabled(a, x)
           cw == cast_optional(a, m.weight)
           t1 == Append(q, Ev("cast", "x", a.enabled))
           t2 == IF m.weight # NoneT
                 THEN Append(t1, Ev("cast", "weight", a.enabled)) ELSE t1
           t3 == Append(t2, Ev("autocast_enter", x.device, a.enabled))
       IN IF cx.status # "returned" THEN Raised(cx.status, t1, a)
          ELSE IF cw.status # "returned" THEN Raised(cw.status, t2, a)
          ELSE LET inner == autocast_enter(a)
                   p == rms_norm(cx.t, cw.t, m.eps, inner.enabled, bld)
                   after == autocast_exit(a, inner)
               IN Returned(RMSNorm_result(p.out, x), p,
                           t3 \o <<Ev("rms_norm", "x", inner.enabled),
                                   Ev("to", x.dtype, inner.enabled),
                                   Ev("autocast_exit", x.device, after.enabled)>>,
                           after)

\* forward of whichever class the instance has.
forward(m, x, pjrt, a, bld) ==
    CASE m.cls = "LPLayerNorm" -> LPLayerNorm_forward(m, x, pjrt, a, bld)
      [] m.cls = "RMSNorm" -> RMSNorm_forward(m, x, pjrt, a, bld)
      [] m.cls = "LPRMSNorm" -> LPRMSNorm_forward(m, x, pjrt, a, bld)

\* Faulty variant: the downcast weight is stored back on the module.
params_written_back(m, r) ==
    IF r.prim.op # "none" THEN [m EXCEPT !.weight = r.prim.weight] ELSE m

\* The module after a forward call with result r: the casts are bound to the
\* locals downcast_x, downcast_weight, downcast_bias (lines 44-48, 113-115)
\* and no attribute of self is assigned.
params_after_forward(m, r) == m

-----------------------------------------------------------------------------
(* The caller *)

NoCall == [op |-> "none", x |-> NoneT, pjrt |-> FALSE, ac |-> AutocastOff,
           res |-> Raised("none", <<>>, AutocastOff)]

Builds == [autocastOps : {"keep", "float32"}]

Modules ==
    { LPLayerNorm_init(f, d, dev) : f \in BOOLEAN, d \in ParamDTypes,
                                    dev \in Devices }
    \cup { RMSNorm_init(f, d, dev) : f \in BOOLEAN, d \in ParamDTypes,
                                     dev \in Devices }
    \cup { LPRMSNorm_init(f, d, dev) : f \in BOOLEAN, d \in ParamDTypes,
                                       dev \in Devices }

Init ==
    /\ self \in Modules
    /\ ctor = self
    /\ ac = AutocastOff
    /\ using_pjrt \in BOOLEAN
    /\ build \in Builds
    /\ last = NoCall
    /\ repeated = FALSE

\* The caller enters a torch.autocast(enabled=True) context.
EnterAutocast ==
    /\ ~ac.enabled
    /\ \E g \in AutocastGpuDTypes, c \in AutocastCpuDTypes :
          ac' = [enabled |-> TRUE, gpu_dtype |-> g, cpu_dtype |-> c]
    /\ last' = NoCall
    /\ repeated' = FALSE
    /\ UNCHANGED <<self, ctor, using_pjrt, build>>

\* The caller leaves its autocast context.
ExitAutocast ==
    /\ ac.enabled
    /\ ac' = AutocastOff
    /\ last' = NoCall
    /\ repeated' = FALSE
    /\ UNCHANGED <<self, ctor, using_pjrt, build>>

\* The process is switched to or from the PJRT runtime.
SetRuntime ==
    /\ using_pjrt' = ~using_pjrt
    /\ last' = NoCall
    /\ repeated' = FALSE
    /\ UNCHANGED <<self, ctor, ac, build>>

\* A direct call of _cast_if_autocast_enabled(tensor).
CallCast ==
    \E t \in Inputs :
        LET r == cast_if_autocast_enabled(ac, t)
        IN /\ last' = [op |-> "cast", x |-> t, pjrt |-> using_pjrt,
                       ac |-> ac,
                       res |-> [status |-> r.status, out |-> r.t,
                                prim |-> NoPrim, trace |-> <<>>, ac |-> ac]]
           /\ repeated' = (last.op = "cast" /\ last.x = t)
           /\ UNCHANGED <<self, ctor, ac, using_pjrt, build>>

\* One call of m.forward(x), from entry to return or raise.
Call(r, x) ==
    /\ last' = [op |-> "forward", x |-> x, pjrt |-> using_pjrt, ac |-> ac,
                res |-> r]
    /\ ac' = r.ac
    /\ self' = params_after_forward(self, r)
    /\ repeated' = (last.op = "forward" /\ last.x = x)
    /\ UNCHANGED <<ctor, using_pjrt, build>>

LPLayerNormForward ==
    /\ self.cls = "LPLayerNorm"
    /\ \E x \in Inputs :
          Call(LPLayerNorm_forward(self, x, using_pjrt, ac, build), x)

RMSNormForward ==
    /\ self.cls = "RMSNorm"
    /\ \E x \in Inputs :
          Call(RMSNorm_forward(self, x, using_pjrt, ac, build), x)

LPRMSNormForward ==
    /\ self.cls = "LPRMSNorm"
    /\ \E x \in Inputs :
          Call(LPRMSNorm_forward(self, x, using_pjrt, ac, build), x)

Next ==
    \/ EnterAutocast
    \/ ExitAutocast
    \/ SetRuntime
    \/ CallCast
    \/ LPLayerNormForward
    \/ RMSNormForward
    \/ LPRMSNormForward

Spec == Init /\ [][Next]_vars

-----------------------------------------------------------------------------
(* Properties of _cast_if_autocast_enabled *)

IsCast == last.op = "cast"
IsForward == last.op = "forward"
HasReturned == last.res.status = "returned"
Supported == {"cuda", "cpu"}

\* C2: with autocast inactive the helper returns the very tensor it was
\* given: same object, dtype, device and numbers, for every input tensor.
C2_IdentityWhenAutocastOff ==
    (IsCast /\ ~last.ac.enabled) => (HasReturned /\ last.res.out = last.x)

\* A call with autocast inactive on a tensor whose dtype is not the default
\* autocast dtype of its device, so that a conversion would show.
C2_Witness ==
    /\ IsCast /\ ~last.ac.enabled /\ HasReturned
    /\ last.x.device = "cuda" /\ last.x.dtype = "float32"

\* C3: with autocast active the helper returns the tensor converted to the
\* autocast GPU dtype on 'cuda', to the autocast CPU dtype on 'cpu', and on
\* any other device category raises NotImplementedError and returns nothing.
C3_CastByDeviceCategory ==
    (IsCast /\ last.ac.enabled) =>
        /\ last.x.device = "cuda" =>
              /\ HasReturned
              /\ last.res.out.dtype = last.ac.gpu_dtype
              /\ last.res.out.val = last.x.val
              /\ last.res.out.device = last.x.device
        /\ last.x.device = "cpu" =>
              /\ HasReturned
              /\ last.res.out.dtype = last.ac.cpu_dtype
              /\ last.res.out.val = last.x.val
              /\ last.res.out.device = last.x.device
        /\ last.x.device \notin Supported =>
              /\ last.res.status = Raise
              /\ last.res.out = NoneT

\* The helper has raised on an 'xla' tensor while the GPU and CPU autocast
\* dtypes differ.
C3_Witness ==
    /\ IsCast /\ last.ac.enabled /\ last.x.device = "xla"
    /\ last.res.status = Raise
    /\ last.ac.gpu_dtype # last.ac.cpu_dtype

\* C4 as stated: with autocast disabled, a tensor on a device category
\* outside {cuda, cpu} makes the helper raise the unsupported-device failure.
C4_FailsWhenAutocastOff ==
    (IsCast /\ ~last.ac.enabled /\ last.x.device \notin Supported) =>
        last.res.status = Raise

\* C4 amended: on a device category outside {cuda, cpu} the helper raises
\* the unsupported-device failure exactly when autocast is enabled, on every
\* such call; with autocast disabled it returns the tensor unchanged.
C4_FailsIffAutocastOn ==
    (IsCast /\ last.x.device \notin Supported) =>
        /\ last.ac.enabled => (last.res.status = Raise /\ last.res.out = NoneT)
        /\ ~last.ac.enabled => (HasReturned /\ last.res.out = last.x)

\* The helper has returned an 'xla' tensor with autocast disabled, called
\* twice in a row on it.
C4_Witness ==
    /\ IsCast /\ ~last.ac.enabled /\ last.x.device = "xla"
    /\ HasReturned /\ repeated

-----------------------------------------------------------------------------
(* Properties of forward *)

Trace == last.res.trace
EventsOf(ops) == { i \in DOMAIN Trace : Trace[i].op \in ops }
Primitives == {"layer_norm", "rms_norm"}
LowPrecision == {"LPLayerNorm", "LPRMSNorm"}

\* The dtype the helper gives a tensor under the autocast state a.
HelperDType(a, t) ==
    IF ~a.enabled THEN t.dtype
    ELSE IF t.device = "cuda" THEN a.gpu_dtype ELSE a.cpu_dtype

\* C1: whenever RMSNorm.forward or LPRMSNorm.forward returns, the returned
\* tensor has the dtype x had on entry, for every x, weight configuration,
\* autocast state and runtime mode.
C1_OutputDTypeIsInputDType ==
    (IsForward /\ self.cls \in {"RMSNorm", "LPRMSNorm"} /\ HasReturned) =>
        last.res.out.dtype = last.x.dtype

\* A call has returned whose normalization yielded a dtype other than x's,
\* with a weight present and autocast active.
C1_Witness ==
    /\ IsForward /\ self.cls \in {"RMSNorm", "LPRMSNorm"} /\ HasReturned
    /\ last.res.prim.out.dtype # last.x.dtype
    /\ self.weight # NoneT /\ last.ac.enabled

\* C6: the module's stored weight, bias and eps are those the constructor
\* stored, after any sequence of forward calls, returned or failed.
C6_ParametersUnchanged == self = ctor

\* A forward call has run the primitive on a converted copy of the weight.
C6_Witness ==
    /\ IsForward /\ HasReturned /\ self.weight # NoneT
    /\ last.res.prim.weight # self.weight
    /\ last.res.prim.weight.val = self.weight.val

\* C7: a forward call on the same instance with the same input as the call
\* just before it, with nothing else done in between, gives the same result:
\* same outcome, same returned tensor, same primitive call.
C7_RepeatedCallSameOutput ==
    [][(last.op = "forward" /\ last'.op = "forward" /\ last'.x = last.x) =>
          /\ last'.res.status = last.res.status
          /\ last'.res.out = last.res.out
          /\ last'.res.prim = last.res.prim]_vars

\* A low-precision forward has been repeated on the default path under
\* active autocast, so an autocast-suppressed scope was opened in between.
C7_Witness ==
    /\ IsForward /\ repeated /\ HasReturned
    /\ self.cls \in LowPrecision /\ ~last.pjrt /\ last.ac.enabled
    /\ last.res.out.dtype # last.x.dtype

\* C8: every forward call consults using_pjrt() first; when it is true the
\* call returns, never calls the helper, opens no autocast-suppressed scope,
\* makes no float32 copy of x, and runs the primitive on x itself with the
\* stored weight, bias and eps under the ambient autocast state.
C8_FastPathSkipsCasting ==
    IsForward =>
        /\ Trace[1].op = "using_pjrt"
        /\ EventsOf({"using_pjrt"}) = {1}
        /\ last.pjrt =>
              /\ HasReturned
              /\ EventsOf({"cast", "autocast_enter", "autocast_exit",
                           "float"}) = {}
              /\ Cardinality(EventsOf(Primitives)) = 1
              /\ last.res.prim.x = last.x
              /\ last.res.prim.weight = self.weight
              /\ last.res.prim.bias = self.bias
              /\ last.res.prim.eps = self.eps
              /\ last.res.prim.amb = last.ac.enabled
              /\ last.res.ac = last.ac

\* A fast-path call has returned for an 'xla' input of reduced precision
\* while autocast was active.
C8_Witness ==
    /\ IsForward /\ last.pjrt /\ HasReturned /\ last.ac.enabled
    /\ last.x.device = "xla" /\ last.x.dtype = "bfloat16"

\* C9: on the default path of LPLayerNorm and LPRMSNorm the helper is
\* applied to x, to the weight if present and to the bias if present, all
\* under the autocast state of entry; the primitive runs at most once, and
\* exactly once when the call returns, after every helper call and inside
\* the autocast-suppressed scope, on operands that each have the dtype the
\* helper chose; an absent weight or bias reaches the primitive as absent.
C9_CastBeforeSuppressedPrimitive ==
    (IsForward /\ ~last.pjrt /\ self.cls \in LowPrecision) =>
        LET casts == EventsOf({"cast"})
            prims == EventsOf(Primitives)
            enters == EventsOf({"autocast_enter"})
            exits == EventsOf({"autocast_exit"})
            p == last.res.prim
        IN /\ Trace[2] = Ev("cast", "x", last.ac.enabled)
           /\ \A c \in casts : Trace[c].amb = last.ac.enabled
           /\ Cardinality(prims) <= 1
           /\ HasReturned <=> Cardinality(prims) = 1
           /\ \A i \in prims :
                 /\ \A c \in casts : c < i
                 /\ ~Trace[i].amb
                 /\ \E e \in enters : e < i /\ \A c \in casts : c < e
                 /\ \E e \in exits : i < e
           /\ HasReturned =>
                 /\ (\E c \in casts : Trace[c].arg = "weight")
                       <=> self.weight # NoneT
                 /\ (\E c \in casts : Trace[c].arg = "bias")
                       <=> self.bias # NoneT
                 /\ ~p.amb
                 /\ p.x.val = last.x.val
                 /\ p.x.dtype = HelperDType(last.ac, last.x)
                 /\ IF self.weight = NoneT THEN p.weight = NoneT
                    ELSE /\ p.weight.val = self.weight.val
                         /\ p.weight.dtype = HelperDType(last.ac, self.weight)
                 /\ IF self.bias = NoneT THEN p.bias = NoneT
                    ELSE /\ p.bias.val = self.bias.val
                         /\ p.bias.dtype = HelperDType(last.ac, self.bias)

\* A default-path LPLayerNorm call has returned under active autocast with
\* x, weight and bias all converted.
C9_Witness ==
    /\ IsForward /\ ~last.pjrt /\ self.cls = "LPLayerNorm" /\ HasReturned
    /\ last.ac.enabled
    /\ last.res.prim.x # last.x
    /\ self.weight # NoneT /\ last.res.prim.weight # self.weight
    /\ last.res.prim.bias # self.bias

\* C10: LPLayerNorm.forward returns the primitive's result as it is, never
\* cast back: on the default path under active autocast the returned dtype
\* is the autocast dtype of x's device category; on the fast path, and on
\* the default path with autocast inactive, the primitive ran on x itself.
C10_LPLayerNormNoCastBack ==
    (IsForward /\ self.cls = "LPLayerNorm" /\ HasReturned) =>
        /\ last.res.out = last.res.prim.out
        /\ EventsOf({"to"}) = {}
        /\ (~last.pjrt /\ last.ac.enabled) =>
              last.res.out.dtype = HelperDType(last.ac, last.x)
        /\ (last.pjrt \/ ~last.ac.enabled) => last.res.prim.x = last.x

\* LPLayerNorm has returned a tensor whose dtype is not the one x had.
C10_Witness ==
    /\ IsForward /\ self.cls = "LPLayerNorm" /\ HasReturned
    /\ ~last.pjrt /\ last.ac.enabled
    /\ last.res.out.dtype # last.x.dtype

-----------------------------------------------------------------------------
(* Fast path against default path *)

\* The latest forward call as made on the fast path and on the default path.
FastRes == forward(self, last.x, TRUE, last.ac, build)
DefaultRes == forward(self, last.x, FALSE, last.ac, build)

=============================================================================
